---- MODULE Spec2Model ----
(***************************************************************************)
(* The study planner's client (frontend/src/App.jsx): the syllabus import  *)
(* state machine (upload, review, confirm), the task list it fetches, and  *)
(* the dashboard's recommendation ladder.                                  *)
(*                                                                         *)
(* Every handler of App.jsx is asynchronous JavaScript: the code between   *)
(* two awaits runs to completion, so each such segment is one action, and  *)
(* a request in flight is a record in `uploads`, `confirms` or `fetches`   *)
(* holding what the handler's closure captured when it was invoked.        *)
(* Dates are days relative to the (fixed) current day; confidences are     *)
(* hundredths (0.75 is 75).                                                *)
(*                                                                         *)
(* Left out: state that is only displayed and never read by a handler      *)
(* (tasksLoading, tasksError, the filters and the calendar cursor), and    *)
(* the inputs other than the title and the status of the task form, the    *)
(* task editor and the review cards.                                       *)
(*                                                                         *)
(* Spec is the import from sign-in on; RecSpec the dashboard over a loaded *)
(* task list; FormSpec the task form, the task editor and the review of a  *)
(* loaded syllabus, title inputs included; LiveSpec is Spec with the       *)
(* scheduling the code guarantees; RiskSpec is deriveRisk over single      *)
(* tasks; CalSpec the calendar's deadline list over task lists and stored  *)
(* calendars; SchedSpec the backend's slot allocator and schedule          *)
(* recompute controller as its design describes them.                      *)
(***************************************************************************)
EXTENDS Integers, Sequences, FiniteSets, TLC

\* ------------------------------------------------------------------ bounds
MaxUploads == 2      \* file selections in one behaviour
MaxConfirms == 2     \* confirms that issue requests in one behaviour
MaxEvents == 2       \* events in one upload response
MaxTasks == 2        \* tasks in a task list loaded for the dashboard
MaxSessions == 1     \* sign-ins in one behaviour
MaxTaskOps == 1      \* requests of the task form and the editor in one behaviour

\* --------------------------------------------------------------- constants
Users == {"u1"}
NoUser == "signed-out"                 \* session === null
tabs == {"Dashboard", "Calendar", "Tasks", "Import"}
ClickedTabs == {"Calendar", "Import"}  \* the tabs the modelled user opens
ReviewEdits == {<<"status", "accepted">>, <<"status", "rejected">>}
NullId == 0                            \* syllabusId / calendar === null
AcceptThreshold == 75                  \* (event.confidence ?? 0) >= 0.75
FileNames == <<"f1.pdf", "f2.pdf", "f3.pdf", "f4.pdf">>

NoConfidence == <<>>                   \* event.confidence is undefined
EventDate == [kind |-> "date", days |-> 7]
Event(confidence) == [title |-> "T", confidence |-> confidence, date |-> EventDate]
\* The event lists the modelled backend extracts from a file.
ServerResponses ==
  {<<>>,
   <<Event(<<75>>)>>,
   <<Event(NoConfidence)>>,
   <<Event(<<80>>), Event(<<40>>)>>,
   <<Event(<<80>>), Event(<<75>>), Event(<<40>>)>>}
EventLists == {r \in ServerResponses : Len(r) <= MaxEvents}

\* ------------------------------------------------------------ sequences
SeqsUpTo(S, n) == UNION {[1..k -> S] : k \in 0..n}

\* ------------------------------------------------- dates and risk (pure)
NoDue == [kind |-> "none", days |-> 0]      \* due_date null or ""
BadDue == [kind |-> "bad", days |-> 0]      \* due_date text that is no date

\* parseISODate: null unless the text is a date.
parseISODate(due) == IF due.kind = "date" THEN <<due.days>> ELSE <<>>

TASK_TYPE_WEIGHTS ==
  [assignment |-> 1, essay |-> 2, discussion |-> 1, project |-> 3, exam |-> 3,
   lecture |-> 1]

getTaskTypeWeight(value) ==
  IF value \in DOMAIN TASK_TYPE_WEIGHTS THEN TASK_TYPE_WEIGHTS[value] ELSE 1

\* The score with an overdue deadline counted as no deadline.
deriveRiskScoreOverdueZero(task) ==
  LET importance == task.importance
      typeWeight == getTaskTypeWeight(task.task_type)
      target == IF task.due.kind = "none" THEN <<>> ELSE parseISODate(task.due)
      byImportance == IF importance >= 4 THEN 2 ELSE IF importance >= 3 THEN 1 ELSE 0
      byDeadline ==
        IF target = <<>> THEN 0
        ELSE IF target[1] < 0 THEN 0
        ELSE IF target[1] <= 2 THEN 3
        ELSE IF target[1] <= 5 THEN 2
        ELSE IF target[1] <= 10 THEN 1
        ELSE 0
  IN typeWeight + byImportance + byDeadline

deriveRiskScore(task) ==
  LET importance == task.importance
      typeWeight == getTaskTypeWeight(task.task_type)
      target == IF task.due.kind = "none" THEN <<>> ELSE parseISODate(task.due)
      byImportance == IF importance >= 4 THEN 2 ELSE IF importance >= 3 THEN 1 ELSE 0
      byDeadline ==
        IF target = <<>> THEN 0
        ELSE IF target[1] <= 2 THEN 3
        ELSE IF target[1] <= 5 THEN 2
        ELSE IF target[1] <= 10 THEN 1
        ELSE 0
  IN typeWeight + byImportance + byDeadline

\* The levels with "high" from a score of 5.
deriveRiskHighFromFive(task) ==
  LET score == deriveRiskScore(task)
  IN IF score >= 5 THEN "high" ELSE IF score >= 3 THEN "medium" ELSE "low"

deriveRisk(task) ==
  LET score == deriveRiskScore(task)
  IN IF score >= 6 THEN "high" ELSE IF score >= 3 THEN "medium" ELSE "low"

\* ------------------------------------------------ dashboard memos (pure)
\* Insert t after every element that is due no later (a stable sort's step).
RECURSIVE InsertByDue(_, _)
InsertByDue(sorted, t) ==
  IF sorted = <<>> THEN <<t>>
  ELSE IF Head(sorted).due.days <= t.due.days
       THEN <<Head(sorted)>> \o InsertByDue(Tail(sorted), t)
       ELSE <<t>> \o sorted

RECURSIVE SortByDue(_)
\* .sort((a, b) => a.dueDate - b.dueDate), which is stable.
SortByDue(s) ==
  IF s = <<>> THEN <<>>
  ELSE InsertByDue(SortByDue(SubSeq(s, 1, Len(s) - 1)), s[Len(s)])

IsActive(task) == task.status # "done"
HasDueDate(task) == parseISODate(task.due) # <<>>
activeTasks(ts) == SelectSeq(ts, IsActive)
tasksWithDueDates(ts) == SelectSeq(ts, HasDueDate)
activeTasksWithDueDates(ts) == SelectSeq(tasksWithDueDates(ts), IsActive)

IsUpcoming(task) == task.due.days >= 0
upcomingTasks(ts) == SortByDue(SelectSeq(activeTasksWithDueDates(ts), IsUpcoming))

IsHighRisk(task) == deriveRisk(task) = "high"
highRiskTasks(ts) == SortByDue(SelectSeq(activeTasksWithDueDates(ts), IsHighRisk))

IsLong(task) == task.estimated_minutes >= 120

\* The long tasks taken from all active tasks, dated or not.
longTasksUndated(ts) == SortByDue(SelectSeq(activeTasks(ts), IsLong))

longTasks(ts) == SortByDue(SelectSeq(activeTasksWithDueDates(ts), IsLong))

IsSoon(task) == task.due.days >= 0 /\ task.due.days <= 2
soonTasks(ts) == SelectSeq(upcomingTasks(ts), IsSoon)

LacksDueDate(task) == task.due.kind = "none"
noDateTasks(ts) == SelectSeq(activeTasks(ts), LacksDueDate)

Recommendation(rule, task) == [rule |-> rule, task |-> task.id]
DefaultRecommendation == [rule |-> "default", task |-> <<0, 0>>]

\* The ladder without its cap of three (neither the length tests nor the slice).
RecommendationsUncapped(ts) ==
  LET items1 == IF highRiskTasks(ts) # <<>>
                THEN <<Recommendation("prioritize", highRiskTasks(ts)[1])>>
                ELSE <<>>
      items2 == IF longTasks(ts) # <<>>
                THEN Append(items1, Recommendation("split", longTasks(ts)[1]))
                ELSE items1
      items3 == IF soonTasks(ts) # <<>>
                THEN Append(items2, Recommendation("schedule", soonTasks(ts)[1]))
                ELSE items2
      items4 == IF noDateTasks(ts) # <<>>
                THEN Append(items3, Recommendation("add-due-date", noDateTasks(ts)[1]))
                ELSE items3
  IN IF items4 = <<>> THEN <<DefaultRecommendation>> ELSE items4

\* The ladder with "schedule time" tested before "split into blocks".
RecommendationsReordered(ts) ==
  LET items1 == IF highRiskTasks(ts) # <<>>
                THEN <<Recommendation("prioritize", highRiskTasks(ts)[1])>>
                ELSE <<>>
      items2 == IF soonTasks(ts) # <<>> /\ Len(items1) < 3
                THEN Append(items1, Recommendation("schedule", soonTasks(ts)[1]))
                ELSE items1
      items3 == IF longTasks(ts) # <<>> /\ Len(items2) < 3
                THEN Append(items2, Recommendation("split", longTasks(ts)[1]))
                ELSE items2
      items4 == IF noDateTasks(ts) # <<>> /\ Len(items3) < 3
                THEN Append(items3, Recommendation("add-due-date", noDateTasks(ts)[1]))
                ELSE items3
  IN IF items4 = <<>> THEN <<DefaultRecommendation>>
     ELSE SubSeq(items4, 1, IF Len(items4) < 3 THEN Len(items4) ELSE 3)

\* The recommendations memo: the rule ladder over the task list.
Recommendations(ts) ==
  LET items1 == IF highRiskTasks(ts) # <<>>
                THEN <<Recommendation("prioritize", highRiskTasks(ts)[1])>>
                ELSE <<>>
      items2 == IF longTasks(ts) # <<>> /\ Len(items1) < 3
                THEN Append(items1, Recommendation("split", longTasks(ts)[1]))
                ELSE items1
      items3 == IF soonTasks(ts) # <<>> /\ Len(items2) < 3
                THEN Append(items2, Recommendation("schedule", soonTasks(ts)[1]))
                ELSE items2
      items4 == IF noDateTasks(ts) # <<>> /\ Len(items3) < 3
                THEN Append(items3, Recommendation("add-due-date", noDateTasks(ts)[1]))
                ELSE items3
  IN IF items4 = <<>> THEN <<DefaultRecommendation>>
     ELSE SubSeq(items4, 1, IF Len(items4) < 3 THEN Len(items4) ELSE 3)

\* The text of a recommendation: the rule's template filled with the title,
\* the course ("prioritize" only) and the due date of its task.
TaskById(ts, id) == ts[CHOOSE i \in DOMAIN ts : ts[i].id = id]
RecommendationText(ts, item) ==
  IF item.rule = "default" THEN <<"default">>
  ELSE LET task == TaskById(ts, item.task)
       IN <<item.rule, task.title,
            IF item.rule = "prioritize" THEN task.course ELSE "",
            IF item.rule = "add-due-date" THEN NoDue ELSE task.due>>
RecommendationTexts(ts, items) ==
  [k \in DOMAIN items |-> RecommendationText(ts, items[k])]

\* ---------------------------------------------------- risk summary (pure)
IsHigh(task) == deriveRisk(task) = "high"
IsMedium(task) == deriveRisk(task) = "medium"
IsLow(task) == deriveRisk(task) = "low"

riskCounts(ts) ==
  [high |-> Len(SelectSeq(activeTasks(ts), IsHigh)),
   medium |-> Len(SelectSeq(activeTasks(ts), IsMedium)),
   low |-> Len(SelectSeq(activeTasks(ts), IsLow))]

\* Number(score.toFixed(2)) in hundredths: n / d rounded to the nearest
\* integer. n / d falls exactly between two integers only when d is a multiple
\* of 16 (n is 20 d + 40 medium + 80 high), so which way a half goes does not
\* matter for the lists of the model.
RoundDiv(n, d) == (2 * n + d) \div (2 * d)

\* The weighted sum left undivided by the number of active tasks.
riskScoreUndivided(ts) ==
  LET total == Len(activeTasks(ts))
      counts == riskCounts(ts)
  IN IF total = 0 THEN <<>>
     ELSE <<RoundDiv(counts.high * 100 + counts.medium * 60 + counts.low * 20, 1)>>

\* riskScore in hundredths, <<>> for null.
riskScore(ts) ==
  LET total == Len(activeTasks(ts))
      counts == riskCounts(ts)
  IN IF total = 0 THEN <<>>
     ELSE <<RoundDiv(counts.high * 100 + counts.medium * 60 + counts.low * 20, total)>>

\* The bands with > for >= at the upper threshold.
riskLabelStrict(ts) ==
  LET score == riskScore(ts)
  IN IF score = <<>> THEN "No data"
     ELSE IF score[1] > 60 THEN "High"
     ELSE IF score[1] >= 35 THEN "Moderate"
     ELSE "Low"

riskLabel(ts) ==
  LET score == riskScore(ts)
  IN IF score = <<>> THEN "No data"
     ELSE IF score[1] >= 60 THEN "High"
     ELSE IF score[1] >= 35 THEN "Moderate"
     ELSE "Low"

\* ------------------------------------------------- import helpers (pure)
\* event.confidence ?? 0
Coalesce(confidence) == IF confidence = NoConfidence THEN 0 ELSE confidence[1]

\* The threshold test with > for >=.
InitialStatusStrict(confidence) ==
  IF Coalesce(confidence) > AcceptThreshold THEN "accepted" ELSE "pending"

\* The initial review status of an uploaded event.
InitialStatus(confidence) ==
  IF Coalesce(confidence) >= AcceptThreshold THEN "accepted" ELSE "pending"

\* The extraction built from event k of upload n; the server's event id is
\* unique to the upload. An event without a type is a "deadline", which
\* mapEventTypeToTaskType maps to no task type.
MapEvent(n, k, event) ==
  [id |-> <<n, k>>, title |-> event.title, dueDate |-> event.date,
   taskType |-> "", confidence |-> Coalesce(event.confidence),
   status |-> InitialStatus(event.confidence)]

MapEvents(n, events) == [k \in 1..Len(events) |-> MapEvent(n, k, events[k])]

\* A title taken as typed.
Untrimmed(title) == title

\* String.prototype.trim on the titles of the model.
Trim(title) == IF title \in {"", " "} THEN "" ELSE title

\* A review control that clears the status it is clicked on a second time.
handleExtractionUpdateToggle(items, id, field, value) ==
  [i \in DOMAIN items |->
     IF items[i].id = id
     THEN [items[i] EXCEPT ![field] = IF items[i][field] = value THEN "pending" ELSE value]
     ELSE items[i]]

handleExtractionUpdate(items, id, field, value) ==
  [i \in DOMAIN items |->
     IF items[i].id = id THEN [items[i] EXCEPT ![field] = value] ELSE items[i]]

IsAccepted(item) == item.status = "accepted"
NotRejected(item) == item.status # "rejected"
HasBlankTitle(item) == Trim(item.title) = ""

Accepted(items) == SelectSeq(items, IsAccepted)

\* The candidates without the preference for accepted items.
CandidatesNotRejected(items) == SelectSeq(items, NotRejected)

\* const candidates = accepted.length ? accepted : the non-rejected items
Candidates(items) ==
  IF Accepted(items) # <<>> THEN Accepted(items) ELSE SelectSeq(items, NotRejected)

InvalidTitles(candidates) == SelectSeq(candidates, HasBlankTitle)

\* The promotion without its test for rejected items.
PromoteAll(items) == [i \in DOMAIN items |-> [items[i] EXCEPT !.status = "accepted"]]

\* The setExtractions of handleConfirm, run when nothing is accepted.
PromoteRemaining(items) ==
  [i \in DOMAIN items |->
     IF items[i].status # "rejected" THEN [items[i] EXCEPT !.status = "accepted"]
     ELSE items[i]]

ExtractionsAfterConfirm(items) ==
  IF Accepted(items) = <<>> THEN PromoteRemaining(items) ELSE items

\* The row POST /api/tasks creates from a candidate's request body.
CreatedTask(id, owner, confirm, item, courseLabel) ==
  [id |-> id, owner |-> owner, confirm |-> confirm, ext |-> item.id,
   title |-> Trim(item.title), course |-> courseLabel, task_type |-> item.taskType,
   due |-> item.dueDate, estimated_minutes |-> 0, importance |-> 0,
   status |-> "pending"]

\* Task ids are <<confirm, request>>; the backend lists tasks by id.
IdBefore(a, b) == a[1] < b[1] \/ (a[1] = b[1] /\ a[2] < b[2])

RECURSIVE ById(_)
ById(rows) ==
  IF rows = {} THEN <<>>
  ELSE LET first == CHOOSE t \in rows : \A o \in rows \ {t} : IdBefore(t.id, o.id)
       IN <<first>> \o ById(rows \ {first})

\* GET /api/tasks with X-User-Id: u
TasksOf(table, u) == ById({t \in table : t.owner = u})

AllOk(req) == \A i \in DOMAIN req : req[i] = "ok"

VARIABLES
  userId,          \* session?.user?.id, NoUser when signed out
  activeTab,
  fileName,
  uploadState,
  extractions,
  syllabusId,
  calendar,
  error,
  tasks,
  recommendations, \* the useMemo over the task list
  uploads,         \* invocations of handleFileChange awaiting their response
  confirms,        \* invocations of handleConfirm that issued requests
  fetches,         \* fetchTasks calls of the userId effect awaiting a response
  serverTasks,     \* the backend's task table
  nUploads,
  nConfirms,
  nSessions,
  newTask,         \* the "Add task" form (its title)
  taskFormError,
  activeTask,      \* <<>> for null, else <<the task the editor was opened on>>
  taskEdit,        \* <<>> for null, else <<the editor's fields>>
  taskSaving,
  taskEditError,
  taskOps,         \* requests of the task form and the editor awaiting a response
  nTaskOps,
  availability,    \* the user's availability blocks, in chronological order
  plans,           \* the schedule_plans rows, each with its schedule items
  latest,          \* per week, the version of the current plan (0: no plan)
  recomputes,      \* the schedule recomputes, queued, running and ended
  nRecomputes

vars == <<userId, activeTab, fileName, uploadState, extractions, syllabusId,
          calendar, error, tasks, recommendations,
          uploads, confirms, fetches, serverTasks, nUploads, nConfirms, nSessions,
          newTask, taskFormError, activeTask, taskEdit, taskSaving, taskEditError,
          taskOps, nTaskOps, availability, plans, latest, recomputes, nRecomputes>>

clientVars == <<userId, activeTab, fileName, uploadState, extractions,
                syllabusId, calendar, error, tasks, recommendations>>
importVars == <<fileName, uploadState, extractions, syllabusId, calendar, error>>
taskVars == <<tasks, recommendations>>
netVars == <<uploads, confirms, fetches, serverTasks, nUploads, nConfirms, nSessions>>
editorVars == <<activeTask, taskEdit, taskSaving, taskEditError>>
formVars == <<newTask, taskFormError, editorVars, taskOps, nTaskOps>>

schedVars == <<availability, plans, latest, recomputes, nRecomputes>>

NoTask == <<>>                         \* activeTask / taskEdit === null
\* The weeks plans are kept for, and the scheduler before any task change.
Weeks == {1, 2}
NoSchedule ==
  /\ availability = <<>>
  /\ plans = {}
  /\ latest = [w \in Weeks |-> 0]
  /\ recomputes = {}
  /\ nRecomputes = 0
EmptyForm == [title |-> ""]

\* ------------------------------------------------------------------ init
Init ==
  /\ userId = NoUser
  /\ activeTab = "Dashboard"
  /\ fileName = ""
  /\ uploadState = "idle"
  /\ extractions = <<>>
  /\ syllabusId = NullId
  /\ calendar = NullId
  /\ error = ""
  /\ tasks = <<>>
  /\ recommendations = Recommendations(<<>>)
  /\ uploads = {}
  /\ confirms = {}
  /\ fetches = {}
  /\ serverTasks = {}
  /\ nUploads = 0
  /\ nConfirms = 0
  /\ nSessions = 0
  /\ newTask = EmptyForm
  /\ taskFormError = ""
  /\ activeTask = NoTask
  /\ taskEdit = NoTask
  /\ taskSaving = FALSE
  /\ taskEditError = ""
  /\ taskOps = {}
  /\ nTaskOps = 0
  /\ NoSchedule

\* handleFileChange has set "uploading" and not yet "extracting": the handler
\* is still running, and nothing else runs until it reaches its await.
Busy == \E u \in uploads : u.phase = "started"

\* The signed-in page is rendered and no handler is in the middle of a segment.
Rendered == userId # NoUser /\ ~Busy

\* The task editor's modal overlay is rendered: it covers the page, so the
\* page's own controls cannot be clicked.
EditorOpen == activeTask # NoTask /\ taskEdit # NoTask
PageShown == Rendered /\ ~EditorOpen
ImportShown == PageShown /\ activeTab = "Import"
TasksShown == PageShown /\ activeTab = "Tasks"

\* ---------------------------------------------------------------- session
\* onAuthStateChange delivers a session for another user (or none); the two
\* userId effects run: fetchTasks, then the reset of the import and editor.
\* handleSignOut's own assignments after its await repeat the same values.
AuthStateChange(u) ==
  /\ ~Busy
  /\ u # userId
  /\ userId' = u
  /\ IF u = NoUser
     THEN /\ tasks' = <<>>
          /\ recommendations' = Recommendations(<<>>)
          /\ fetches' = fetches
     ELSE /\ fetches' = fetches \cup {[user |-> u]}
          /\ UNCHANGED <<tasks, recommendations>>
  /\ calendar' = NullId
  /\ extractions' = <<>>
  /\ syllabusId' = NullId
  /\ uploadState' = "idle"
  /\ fileName' = ""
  /\ error' = ""
  /\ activeTask' = NoTask
  /\ taskEdit' = NoTask
  /\ taskEditError' = ""
  /\ taskSaving' = FALSE
  /\ UNCHANGED <<activeTab, uploads, confirms, serverTasks, nUploads, nConfirms,
                 newTask, taskFormError, taskOps, nTaskOps, schedVars>>

SignIn ==
  \E u \in Users :
    /\ userId = NoUser
    /\ nSessions < MaxSessions
    /\ nSessions' = nSessions + 1
    /\ AuthStateChange(u)

handleSignOut == userId # NoUser /\ AuthStateChange(NoUser) /\ UNCHANGED nSessions

\* The response of the effect's fetchTasks arrives: the user's tasks, or a
\* failure, which leaves the list as it is.
FetchTasksDone ==
  \E f \in fetches, ok \in BOOLEAN :
    /\ ~Busy
    /\ fetches' = fetches \ {f}
    /\ tasks' = IF ok THEN TasksOf(serverTasks, f.user) ELSE tasks
    /\ recommendations' = Recommendations(tasks')
    /\ UNCHANGED <<formVars, userId, activeTab, importVars, uploads, confirms, serverTasks,
                   nUploads, nConfirms, nSessions, schedVars>>

SetActiveTabTo(tab) ==
  /\ PageShown
  /\ tab # activeTab
  /\ activeTab' = tab
  /\ UNCHANGED <<formVars, userId, importVars, taskVars, netVars, schedVars>>

SetActiveTab == \E tab \in ClickedTabs : SetActiveTabTo(tab)

\* ----------------------------------------------------------------- upload
\* handleFileChange up to setUploadState("uploading") and the resets after it.
\* Every selection is a new file, FileNames[n] for the n-th. The record of
\* the invocation also keeps, in prev, the file name, syllabusId and calendar
\* the handler found; no action reads prev.
handleFileChange ==
  /\ ImportShown
  /\ nUploads < MaxUploads
  /\ nUploads' = nUploads + 1
  /\ fileName' = FileNames[nUploads']
  /\ uploadState' = "uploading"
  /\ error' = ""
  /\ syllabusId' = NullId
  /\ calendar' = NullId
  /\ uploads' = uploads \cup
       {[id |-> nUploads', user |-> userId, phase |-> "started",
         prev |-> [fileName |-> fileName, syllabusId |-> syllabusId,
                   calendar |-> calendar]]}
  /\ UNCHANGED <<formVars, userId, activeTab, extractions, taskVars, confirms, fetches,
                 serverTasks, nConfirms, nSessions, schedVars>>

\* ... to the await: setUploadState("extracting") and the POST is sent.
UploadSend ==
  \E u \in uploads :
    /\ u.phase = "started"
    /\ uploadState' = "extracting"
    /\ uploads' = (uploads \ {u}) \cup {[u EXCEPT !.phase = "sent"]}
    /\ UNCHANGED <<formVars, userId, activeTab, fileName, extractions, syllabusId, calendar,
                   error, taskVars, confirms, fetches, serverTasks, nUploads,
                   nConfirms, nSessions, schedVars>>

\* An empty extraction treated as a failed upload.
StateAfterUploadEmptyFails(ok, events) ==
  IF ok /\ events # <<>> THEN "review" ELSE "idle"

\* The uploadState handleFileChange leaves after a response.
StateAfterUpload(ok, events) == IF ok THEN "review" ELSE "idle"

\* The error handleFileChange leaves after a response.
ErrorAfterUpload(ok, events, before) ==
  IF ~ok THEN "Upload failed"
  ELSE IF events = <<>> THEN "No dated items were detected." ELSE before

\* handleFileChange after its await: the backend has answered with the
\* extracted events, or the request failed (a non-OK response, or no response).
UploadDone ==
  \E u \in uploads, ok \in BOOLEAN, events \in EventLists :
    /\ ~Busy
    /\ u.phase = "sent"
    /\ ~ok => events = <<>>
    /\ uploads' = uploads \ {u}
    /\ IF ok
       THEN /\ syllabusId' = u.id
            /\ calendar' = u.id
            /\ extractions' = MapEvents(u.id, events)
       ELSE UNCHANGED <<syllabusId, calendar, extractions>>
    /\ error' = ErrorAfterUpload(ok, events, error)
    /\ uploadState' = StateAfterUpload(ok, events)
    /\ UNCHANGED <<formVars, userId, activeTab, fileName, taskVars, confirms, fetches,
                   serverTasks, nUploads, nConfirms, nSessions, schedVars>>

\* ----------------------------------------------------------------- review
\* A control of review card i: the Accept and Reject buttons.
ReviewEdit ==
  \E i \in DOMAIN extractions :
    \E edit \in ReviewEdits :
      /\ ImportShown
      /\ extractions' =
           handleExtractionUpdate(extractions, extractions[i].id, edit[1], edit[2])
      /\ extractions' # extractions
      /\ UNCHANGED <<formVars, userId, activeTab, fileName, uploadState, syllabusId, calendar,
                     error, taskVars, netVars, schedVars>>

\* ---------------------------------------------------------------- confirm
\* The Confirm button is enabled.
ConfirmEnabled == ImportShown /\ uploadState # "confirming" /\ extractions # <<>>

\* handleConfirm returns early with an error message and sends nothing.
ConfirmRejected ==
  /\ ConfirmEnabled
  /\ Candidates(extractions) = <<>> \/ InvalidTitles(Candidates(extractions)) # <<>>
  /\ error' = IF Candidates(extractions) = <<>>
              THEN "Select at least one item to add."
              ELSE "Each extracted item needs a title before confirming."
  /\ error' # error
  /\ UNCHANGED <<formVars, userId, activeTab, fileName, uploadState, extractions, syllabusId,
                 calendar, taskVars, netVars, schedVars>>

\* handleConfirm up to its await: one POST /api/tasks per candidate is sent.
\* The record keeps what the closure holds: the user, the review list and the
\* file name of the render the button was clicked in.
handleConfirm ==
  /\ ConfirmEnabled
  /\ Candidates(extractions) # <<>>
  /\ InvalidTitles(Candidates(extractions)) = <<>>
  /\ nConfirms < MaxConfirms
  /\ nConfirms' = nConfirms + 1
  /\ extractions' = ExtractionsAfterConfirm(extractions)
  /\ error' = ""
  /\ uploadState' = "confirming"
  /\ confirms' = confirms \cup
       {[id |-> nConfirms', user |-> userId, items |-> extractions,
         file |-> fileName, candidates |-> Candidates(extractions),
         req |-> [i \in DOMAIN Candidates(extractions) |-> "inflight"],
         phase |-> "posting"]}
  /\ UNCHANGED <<formVars, userId, activeTab, fileName, syllabusId, calendar, taskVars,
                 uploads, fetches, serverTasks, nUploads, nSessions, schedVars>>

\* A confirm whose catch block has run stays in `confirms` for as long as one
\* of its requests is still on its way.
Settled(cf) == cf.phase = "failed" /\ \A i \in DOMAIN cf.req : cf.req[i] # "inflight"
Replace(cf, new) == (confirms \ {cf}) \cup (IF Settled(new) THEN {} ELSE {new})

\* The backend creates the task of request i of confirm cf and answers OK.
\* When it was the last one, Promise.all resolves and fetchTasks (of the
\* closure's user) sends its GET.
TaskPostOk ==
  \E cf \in confirms :
    \E i \in DOMAIN cf.req :
      LET req == [cf.req EXCEPT ![i] = "ok"]
          resolved == cf.phase = "posting" /\ AllOk(req)
      IN /\ ~Busy
         /\ cf.req[i] = "inflight"
         /\ serverTasks' = serverTasks \cup
              {CreatedTask(<<cf.id, i>>, cf.user, cf.id, cf.candidates[i], cf.file)}
         /\ confirms' = Replace(cf,
              [cf EXCEPT !.req = req,
                         !.phase = IF resolved THEN "fetching" ELSE cf.phase])
         /\ UNCHANGED <<formVars, userId, activeTab, importVars, tasks, recommendations,
                        uploads, fetches, nUploads, nConfirms, nSessions, schedVars>>

\* Request i of confirm cf fails. The first failure rejects Promise.all: the
\* catch block runs, whatever the other requests do afterwards.
TaskPostFail ==
  \E cf \in confirms :
    \E i \in DOMAIN cf.req :
      LET rejected == cf.phase = "posting"
      IN /\ ~Busy
         /\ cf.req[i] = "inflight"
         /\ confirms' = Replace(cf,
              [cf EXCEPT !.req[i] = "failed",
                         !.phase = IF rejected THEN "failed" ELSE cf.phase])
         /\ IF rejected
            THEN uploadState' = "review" /\ error' = "Failed to create tasks"
            ELSE UNCHANGED <<uploadState, error>>
         /\ UNCHANGED <<formVars, userId, activeTab, fileName, extractions, syllabusId,
                        calendar, taskVars, uploads, fetches, serverTasks, nUploads,
                        nConfirms, nSessions, schedVars>>

\* fetchTasks of confirm cf ends (it catches its own failure), and
\* handleConfirm finishes: "confirmed", and the Calendar tab.
ConfirmDone ==
  \E cf \in confirms, ok \in BOOLEAN :
    /\ ~Busy
    /\ cf.phase = "fetching"
    /\ confirms' = confirms \ {cf}
    /\ tasks' = IF ok THEN TasksOf(serverTasks, cf.user) ELSE tasks
    /\ recommendations' = Recommendations(tasks')
    /\ uploadState' = "confirmed"
    /\ activeTab' = "Calendar"
    /\ UNCHANGED <<formVars, userId, fileName, extractions, syllabusId, calendar, error,
                   uploads, fetches, serverTasks, nUploads, nConfirms, nSessions, schedVars>>

Next ==
  \/ SignIn
  \/ handleSignOut
  \/ FetchTasksDone
  \/ SetActiveTab
  \/ handleFileChange
  \/ UploadSend
  \/ UploadDone
  \/ ReviewEdit
  \/ ConfirmRejected
  \/ handleConfirm
  \/ TaskPostOk
  \/ TaskPostFail
  \/ ConfirmDone

Spec == Init /\ [][Next]_vars

\* The same program with the one scheduling guarantee the code gives an
\* upload: handleFileChange runs on to its await once it has started. Nothing
\* bounds the wait for a response (the fetch has no timeout and no abort
\* signal), and the user is not obliged to click.
LiveSpec == Spec /\ WF_vars(UploadSend)

\* ------------------------------------------------------------- dashboard
\* The task lists the dashboard is evaluated on: every list of at most
\* MaxTasks tasks over these field values (days are relative to today).
TaskDues ==
  {NoDue, BadDue} \cup {[kind |-> "date", days |-> d] : d \in {0 - 1, 1, 4, 12}}
TaskFields ==
  [status : {"pending", "done"}, due : TaskDues, estimated_minutes : {0, 120},
   importance : {0, 4}, task_type : {"", "exam"}]

\* A task of the signed-in user that no confirm created: its id is <<0, i>>,
\* its title the i-th of Titles.
Titles == <<"T1", "T2", "T3", "T4">>
ManualTask(i, f) ==
  [id |-> <<0, i>>, owner |-> "u1", confirm |-> 0, ext |-> <<0, 0>>, title |-> Titles[i],
   course |-> "", task_type |-> f.task_type, due |-> f.due,
   estimated_minutes |-> f.estimated_minutes, importance |-> f.importance,
   status |-> f.status]

TaskLists ==
  {[i \in DOMAIN l |-> ManualTask(i, l[i])] : l \in SeqsUpTo(TaskFields, MaxTasks)}

\* The signed-in dashboard over some task list; the import is idle.
RecInit ==
  /\ userId = "u1"
  /\ activeTab = "Dashboard"
  /\ fileName = ""
  /\ uploadState = "idle"
  /\ extractions = <<>>
  /\ syllabusId = NullId
  /\ calendar = NullId
  /\ error = ""
  /\ tasks \in TaskLists
  /\ recommendations = Recommendations(tasks)
  /\ uploads = {}
  /\ confirms = {}
  /\ fetches = {}
  /\ serverTasks = {}
  /\ nUploads = 0
  /\ nConfirms = 0
  /\ nSessions = 1
  /\ newTask = EmptyForm
  /\ taskFormError = ""
  /\ activeTask = NoTask
  /\ taskEdit = NoTask
  /\ taskSaving = FALSE
  /\ taskEditError = ""
  /\ taskOps = {}
  /\ nTaskOps = 0
  /\ NoSchedule

\* markTaskComplete on task i, and the list fetched again: the memo is
\* computed for the new list.
MarkTaskComplete ==
  \E i \in DOMAIN tasks :
    /\ tasks[i].status # "done"
    /\ tasks' = [tasks EXCEPT ![i].status = "done"]
    /\ recommendations' = Recommendations(tasks')
    /\ UNCHANGED <<formVars, userId, activeTab, importVars, netVars, schedVars>>

\* deleteTask on task i, and the list fetched again.
DeleteTask ==
  \E i \in DOMAIN tasks :
    /\ tasks' = SubSeq(tasks, 1, i - 1) \o SubSeq(tasks, i + 1, Len(tasks))
    /\ recommendations' = Recommendations(tasks')
    /\ UNCHANGED <<formVars, userId, activeTab, importVars, netVars, schedVars>>

RecNext == MarkTaskComplete \/ DeleteTask

RecSpec == RecInit /\ [][RecNext]_vars

\* ------------------------------------------------------------ deriveRisk
\* The single tasks deriveRisk is evaluated on: every task type (and one that
\* is not in TASK_TYPE_WEIGHTS, and none), every importance 0..5, no due
\* date, an unparseable one, and due dates from overdue to beyond 10 days.
RiskTypes == DOMAIN TASK_TYPE_WEIGHTS \cup {"", "reading"}
RiskDues == {NoDue, BadDue} \cup {[kind |-> "date", days |-> d] : d \in (0 - 2)..12}
RiskTask(type, importance, due) ==
  [ManualTask(1, [status |-> "pending", due |-> due, estimated_minutes |-> 0,
                  importance |-> importance, task_type |-> type])
   EXCEPT !.title = "T1"]

RiskInit ==
  /\ userId = "u1"
  /\ activeTab = "Dashboard"
  /\ fileName = ""
  /\ uploadState = "idle"
  /\ extractions = <<>>
  /\ syllabusId = NullId
  /\ calendar = NullId
  /\ error = ""
  /\ \E type \in RiskTypes, importance \in 0..5, due \in RiskDues :
       tasks = <<RiskTask(type, importance, due)>>
  /\ recommendations = Recommendations(tasks)
  /\ uploads = {}
  /\ confirms = {}
  /\ fetches = {}
  /\ serverTasks = {}
  /\ nUploads = 0
  /\ nConfirms = 0
  /\ nSessions = 1
  /\ newTask = EmptyForm
  /\ taskFormError = ""
  /\ activeTask = NoTask
  /\ taskEdit = NoTask
  /\ taskSaving = FALSE
  /\ taskEditError = ""
  /\ taskOps = {}
  /\ nTaskOps = 0
  /\ NoSchedule

RiskSpec == RiskInit /\ [][RecNext]_vars

\* --------------------------------------------------------- calendar view
MaxCalendarEvents == 2

\* An event of data.calendar without an id.
NoId == <<0, 0>>
CalendarDates == {NoDue} \cup {[kind |-> "date", days |-> d] : d \in {1, 4}}
\* The events a calendar holds: with an id and a type, or with neither; with
\* a date or without one.
CalendarEvents ==
  {[id |-> v[1], title |-> title, date |-> date, type |-> v[2]] :
     v \in {<<NoId, "">>, <<<<1, 1>>, "exam">>}, title \in {"T1", "T2"},
     date \in CalendarDates}

RECURSIVE SetToSeq(_)
SetToSeq(S) ==
  IF S = {} THEN <<>>
  ELSE LET x == CHOOSE y \in S : TRUE IN <<x>> \o SetToSeq(S \ {x})

\* The calendars a response can carry, numbered from 1: the number reads as
\* MaxCalendarEvents digits, each naming an event of CalendarEventSeq or, 0,
\* none. The calendar variable holds the number of the calendar setCalendar
\* stored, NullId for null.
CalendarEventSeq == SetToSeq(CalendarEvents)
RECURSIVE EventsOfNumber(_, _)
EventsOfNumber(n, k) ==
  IF k = 0 THEN <<>>
  ELSE LET d == n % (Len(CalendarEventSeq) + 1)
       IN (IF d = 0 THEN <<>> ELSE <<CalendarEventSeq[d]>>) \o
          EventsOfNumber(n \div (Len(CalendarEventSeq) + 1), k - 1)
RECURSIVE Power(_, _)
Power(b, k) == IF k = 0 THEN 1 ELSE b * Power(b, k - 1)
Calendars == 1..Power(Len(CalendarEventSeq) + 1, MaxCalendarEvents)
\* calendar?.events || []
CalendarOf(n) == IF n = NullId THEN <<>> ELSE EventsOfNumber(n - 1, MaxCalendarEvents)

\* A due_date or event date that is truthy: a non-empty text.
HasDateText(date) == date # NoDue
TaskHasDateText(task) == HasDateText(task.due)
EventHasDateText(event) == HasDateText(event.date)

\* The entry ids `task-<id>`, the event's own id, `import-<title>-<date>`.
EntryId(kind, key, title, date) ==
  [kind |-> kind, key |-> key, title |-> title, date |-> date]
TaskEntry(task) ==
  [id |-> EntryId("task", task.id, "", NoDue), title |-> task.title,
   date |-> task.due, type |-> "task"]
EventEntry(event) ==
  [id |-> IF event.id # NoId THEN EntryId("event", event.id, "", NoDue)
          ELSE EntryId("import", NoId, event.title, event.date),
   title |-> event.title, date |-> event.date,
   type |-> IF event.type # "" THEN event.type ELSE "import"]

\* items: the dated tasks first, then the dated events of the calendar.
DeadlineItems(ts, events) ==
  LET dated == SelectSeq(ts, TaskHasDateText)
      given == SelectSeq(events, EventHasDateText)
  IN [i \in DOMAIN dated |-> TaskEntry(dated[i])] \o
     [i \in DOMAIN given |-> EventEntry(given[i])]

\* The key `${item.title}-${item.date}`: on the titles of the model (none
\* holds a "-") two keys are equal exactly when title and date are.
SameKey(a, b) == a.title = b.title /\ a.date = b.date

\* unique.set(key, item) on every item: the key keeps its place, the value
\* is the last item of the key.
RECURSIVE UniqueByKeyLastWins(_)
UniqueByKeyLastWins(items) ==
  IF items = <<>> THEN <<>>
  ELSE LET rest == UniqueByKeyLastWins(SubSeq(items, 1, Len(items) - 1))
           last == items[Len(items)]
       IN IF \E j \in DOMAIN rest : SameKey(rest[j], last)
          THEN [j \in DOMAIN rest |-> IF SameKey(rest[j], last) THEN last ELSE rest[j]]
          ELSE Append(rest, last)

\* The Map filled with `if (!unique.has(key)) unique.set(key, item)`, in
\* insertion order.
RECURSIVE UniqueByKey(_)
UniqueByKey(items) ==
  IF items = <<>> THEN <<>>
  ELSE LET rest == UniqueByKey(SubSeq(items, 1, Len(items) - 1))
           last == items[Len(items)]
       IN IF \E j \in DOMAIN rest : SameKey(rest[j], last) THEN rest
          ELSE Append(rest, last)

\* a.date.localeCompare(b.date) <= 0: ISO dates compare as their days, and a
\* text that is no date (it starts with a letter) comes after every date.
DateTextLeq(a, b) ==
  IF a.kind = "date" /\ b.kind = "date" THEN a.days <= b.days ELSE b.kind # "date"

RECURSIVE InsertByDateText(_, _)
InsertByDateText(sorted, item) ==
  IF sorted = <<>> THEN <<item>>
  ELSE IF DateTextLeq(Head(sorted).date, item.date)
       THEN <<Head(sorted)>> \o InsertByDateText(Tail(sorted), item)
       ELSE <<item>> \o sorted

RECURSIVE SortByDateText(_)
\* .sort((a, b) => a.date.localeCompare(b.date)), which is stable.
SortByDateText(s) ==
  IF s = <<>> THEN <<>>
  ELSE InsertByDateText(SortByDateText(SubSeq(s, 1, Len(s) - 1)), s[Len(s)])

deadlineEvents(ts, cal) == SortByDateText(UniqueByKey(DeadlineItems(ts, CalendarOf(cal))))

\* The task lists of the calendar view: titles may repeat, a due date is
\* absent, a text that is no date, or a date.
CalendarTaskDues == {NoDue, BadDue} \cup {[kind |-> "date", days |-> d] : d \in {1, 4}}
CalendarTask(i, title, due) ==
  [ManualTask(i, [status |-> "pending", due |-> due, estimated_minutes |-> 0,
                  importance |-> 0, task_type |-> ""])
   EXCEPT !.title = title]
CalendarTaskLists ==
  {[i \in DOMAIN l |-> CalendarTask(i, l[i][1], l[i][2])] :
     l \in SeqsUpTo({"T1", "T2"} \X CalendarTaskDues, MaxTasks)}

\* The signed-in calendar tab over some task list and some stored calendar.
CalInit ==
  /\ userId = "u1"
  /\ activeTab = "Calendar"
  /\ fileName = ""
  /\ uploadState = "idle"
  /\ extractions = <<>>
  /\ syllabusId = NullId
  /\ calendar \in {NullId} \cup Calendars
  /\ error = ""
  /\ tasks \in CalendarTaskLists
  /\ recommendations = Recommendations(tasks)
  /\ uploads = {}
  /\ confirms = {}
  /\ fetches = {}
  /\ serverTasks = {}
  /\ nUploads = 0
  /\ nConfirms = 0
  /\ nSessions = 1
  /\ newTask = EmptyForm
  /\ taskFormError = ""
  /\ activeTask = NoTask
  /\ taskEdit = NoTask
  /\ taskSaving = FALSE
  /\ taskEditError = ""
  /\ taskOps = {}
  /\ nTaskOps = 0
  /\ NoSchedule

CalSpec == CalInit /\ [][RecNext]_vars

\* --------------------------------------------------------------- schedule
\* The slot allocator and the schedule recompute controller of the backend,
\* as the design documents and the specification describe them. Times are
\* minutes from the start of a week; today is day 0, the first day of week 1.
MaxRecomputes == 3
\* The retry bound of a recompute that lost against a concurrent one.
MaxRetries == 2
\* Slot granularity, in minutes.
SlotMinutes == 30
WeekDays == 7
\* The importance of a task that has none.
ImportanceDefault == 3
\* Scores are kept in twelfths, so that 1 / max(1, days) is a whole number
\* for the due days of the model.
UrgencyUnits == 12
\* The scoring weights w1, w2, w3.
Weights == [urgency |-> 1, importance |-> 1, effort |-> 1]

Min(a, b) == IF a <= b THEN a ELSE b
Max(a, b) == IF a >= b THEN a ELSE b

\* The availability of the user: one block 20:00-20:10, one block of an
\* hour, or two blocks the second of which ends inside a slot.
Availabilities ==
  {<<[start |-> 1200, end |-> 1210]>>,
   <<[start |-> 0, end |-> 60]>>,
   <<[start |-> 0, end |-> 30], [start |-> 60, end |-> 105]>>}

\* Expand availability into 30-minute slots; the last slot of a block is as
\* long as what is left of the block.
RECURSIVE SlotsOfBlock(_, _)
SlotsOfBlock(start, end) ==
  IF start >= end THEN <<>>
  ELSE <<[start |-> start, end |-> Min(start + SlotMinutes, end)]>> \o
       SlotsOfBlock(start + SlotMinutes, end)

RECURSIVE ExpandSlots(_)
ExpandSlots(blocks) ==
  IF blocks = <<>> THEN <<>>
  ELSE SlotsOfBlock(Head(blocks).start, Head(blocks).end) \o ExpandSlots(Tail(blocks))

RECURSIVE TotalMinutes(_)
TotalMinutes(slots) ==
  IF slots = <<>> THEN 0
  ELSE Head(slots).end - Head(slots).start + TotalMinutes(Tail(slots))

\* The week a dated task is due in.
DueWeek(task) == task.due.days \div WeekDays + 1

\* The eligible tasks of a user's week: not done, and due in the week or
\* after it, or without a due date.
Eligible(table, user, week) ==
  {t \in table : /\ t.owner = user
                 /\ t.status # "done"
                 /\ t.due = NoDue \/ (t.due.kind = "date" /\ DueWeek(t) >= week)}

\* urgency = 1 / max(1, days_to_deadline), 0 without a due date.
Urgency(task) ==
  IF task.due.kind = "date" THEN UrgencyUnits \div Max(1, task.due.days) ELSE 0
Importance(task) == IF task.importance = 0 THEN ImportanceDefault ELSE task.importance
\* The remaining effort in slot units.
SlotUnits(task) == (task.estimated_minutes + SlotMinutes - 1) \div SlotMinutes
\* score = w1 * urgency + w2 * importance + w3 * remaining_effort
Score(task) ==
  Weights.urgency * Urgency(task)
    + UrgencyUnits * (Weights.importance * Importance(task) + Weights.effort * SlotUnits(task))

\* a is due earlier than b; a task without a due date is due after the others.
DueEarlier(a, b) ==
  /\ a.due.kind = "date"
  /\ b.due.kind = "date" => a.due.days < b.due.days
SameDue(a, b) == ~DueEarlier(a, b) /\ ~DueEarlier(b, a)
\* Score descending, ties by earlier due date, then by task identity.
Precedes(a, b) ==
  \/ Score(a) > Score(b)
  \/ Score(a) = Score(b) /\ DueEarlier(a, b)
  \/ Score(a) = Score(b) /\ SameDue(a, b) /\ IdBefore(a.id, b.id)

RECURSIVE PriorityOrder(_)
PriorityOrder(eligible) ==
  IF eligible = {} THEN <<>>
  ELSE LET first == CHOOSE t \in eligible : \A o \in eligible \ {t} : Precedes(t, o)
       IN <<first>> \o PriorityOrder(eligible \ {first})

\* A task that is given each slot whole, whatever it still needs.
RECURSIVE ConsumeWholeSlots(_, _, _)
ConsumeWholeSlots(task, need, free) ==
  IF need <= 0 \/ free = <<>> THEN [items |-> <<>>, free |-> free, left |-> Max(need, 0)]
  ELSE LET slot == Head(free)
           rest == ConsumeWholeSlots(task, need - (slot.end - slot.start), Tail(free))
       IN [items |-> <<[task |-> task, start |-> slot.start, end |-> slot.end]>> \o rest.items,
           free |-> rest.free, left |-> rest.left]

\* A task whose slots stay free for the tasks after it.
RECURSIVE ConsumeReusingSlots(_, _, _)
ConsumeReusingSlots(task, need, free) ==
  IF need = 0 \/ free = <<>> THEN [items |-> <<>>, free |-> free, left |-> need]
  ELSE LET slot == Head(free)
           used == Min(need, slot.end - slot.start)
           rest == ConsumeReusingSlots(task, need - used, Tail(free))
       IN [items |-> <<[task |-> task, start |-> slot.start, end |-> slot.start + used]>>
                       \o rest.items,
           free |-> free, left |-> rest.left]

\* One task consumes the earliest free slots, in chronological order, until
\* its effort is satisfied or no slot is left: the items, the slots still
\* free and the minutes left over.
RECURSIVE Consume(_, _, _)
Consume(task, need, free) ==
  IF need = 0 \/ free = <<>> THEN [items |-> <<>>, free |-> free, left |-> need]
  ELSE LET slot == Head(free)
           used == Min(need, slot.end - slot.start)
           rest == Consume(task, need - used, Tail(free))
       IN [items |-> <<[task |-> task, start |-> slot.start, end |-> slot.start + used]>>
                       \o rest.items,
           free |-> rest.free, left |-> rest.left]

\* The remainder of a task that was not fully satisfied, flagged when the
\* task is larger than the whole availability.
Overflow(task, left, total) ==
  IF left = 0 THEN <<>>
  ELSE <<[task |-> task.id, minutes |-> left,
          exceeds_capacity |-> task.estimated_minutes > total]>>

\* Walk the ordered tasks over the free slots.
RECURSIVE AllocateFrom(_, _, _)
AllocateFrom(order, free, total) ==
  IF order = <<>> THEN [items |-> <<>>, overflow |-> <<>>]
  ELSE LET task == Head(order)
           taken == Consume(task.id, task.estimated_minutes, free)
           rest == AllocateFrom(Tail(order), taken.free, total)
       IN [items |-> taken.items \o rest.items,
           overflow |-> Overflow(task, taken.left, total) \o rest.overflow]

SlotAllocator(eligible, blocks) ==
  AllocateFrom(PriorityOrder(eligible), ExpandSlots(blocks),
               TotalMinutes(ExpandSlots(blocks)))

\* The tasks the scheduler is run on: 45 or 60 minutes, without a due date,
\* due in week 1 or due in week 2.
ScheduleDues == {NoDue} \cup {[kind |-> "date", days |-> d] : d \in {2, 12}}
ScheduleRows ==
  {ManualTask(i, [status |-> "pending", due |-> due, estimated_minutes |-> minutes,
                  importance |-> 0, task_type |-> ""]) :
     i \in 1..MaxTasks, due \in ScheduleDues, minutes \in {45, 60}}

\* The weeks a change of the task affects: its due week, and every week for
\* a task without a due date, which is eligible in each.
AffectedWeeks(task) == IF task.due.kind = "date" THEN {DueWeek(task)} ELSE Weeks

\* The recomputes a task change queues, one per affected week, numbered on.
RECURSIVE Queued(_, _, _)
Queued(user, weeks, n) ==
  IF weeks = {} THEN {}
  ELSE LET week == CHOOSE w \in weeks : \A o \in weeks : w <= o
       IN {[id |-> n + 1, user |-> user, week |-> week, phase |-> "queued", reads |-> 0,
            first |-> 0, base |-> 0, wrote |-> 0,
            result |-> [items |-> <<>>, overflow |-> <<>>]]}
          \cup Queued(user, weeks \ {week}, n + 1)

\* A task create, update or delete event: the table changes and the
\* recomputes of the affected weeks are queued.
TaskChanged(table, task) ==
  /\ nRecomputes + Cardinality(AffectedWeeks(task)) <= MaxRecomputes
  /\ serverTasks' = table
  /\ recomputes' = recomputes \cup Queued(task.owner, AffectedWeeks(task), nRecomputes)
  /\ nRecomputes' = nRecomputes + Cardinality(AffectedWeeks(task))
  /\ UNCHANGED <<clientVars, formVars, uploads, confirms, fetches, nUploads, nConfirms,
                 nSessions, availability, plans, latest>>

ScheduleTaskCreated ==
  \E row \in ScheduleRows :
    /\ \A t \in serverTasks : t.id # row.id
    /\ TaskChanged(serverTasks \cup {row}, row)

ScheduleTaskDone ==
  \E row \in serverTasks :
    /\ row.status # "done"
    /\ TaskChanged((serverTasks \ {row}) \cup {[row EXCEPT !.status = "done"]}, row)

ScheduleTaskDeleted ==
  \E row \in serverTasks : TaskChanged(serverTasks \ {row}, row)

\* A recompute reads the current plan version of its week and runs the slot
\* allocator over the full eligible task set of the week.
RecomputeRead ==
  \E r \in recomputes :
    /\ r.phase = "queued"
    /\ recomputes' = (recomputes \ {r}) \cup
         {[r EXCEPT !.phase = "read", !.reads = r.reads + 1,
                    !.first = IF r.reads = 0 THEN latest[r.week] ELSE r.first,
                    !.base = latest[r.week],
                    !.result = SlotAllocator(Eligible(serverTasks, r.user, r.week),
                                             availability)]}
    /\ UNCHANGED <<clientVars, formVars, netVars, availability, plans, latest, nRecomputes>>

\* A write that does not look at the current version again.
WriteAllowedStale(r) == TRUE

\* The write goes ahead when the version read is still the current one.
WriteAllowed(r) == latest[r.week] = r.base

\* The write of a recompute, atomic per (user, week): a new plan row with
\* version = previous version + 1 and its items; or, the version read being
\* stale, the recompute retries against the new current version, and ends
\* with "schedule busy" once its retries are used up.
RecomputeWrite ==
  \E r \in recomputes :
    /\ r.phase = "read"
    /\ IF WriteAllowed(r)
       THEN /\ plans' = plans \cup
                 {[id |-> r.id, user |-> r.user, week |-> r.week, version |-> r.base + 1,
                   items |-> r.result.items, overflow |-> r.result.overflow]}
            /\ latest' = [latest EXCEPT ![r.week] = r.base + 1]
            /\ recomputes' = (recomputes \ {r}) \cup
                 {[r EXCEPT !.phase = "done", !.wrote = r.base + 1]}
       ELSE /\ recomputes' = (recomputes \ {r}) \cup
                 {[r EXCEPT !.phase = IF r.reads <= MaxRetries THEN "queued" ELSE "busy"]}
            /\ UNCHANGED <<plans, latest>>
    /\ UNCHANGED <<clientVars, formVars, netVars, availability, nRecomputes>>

\* A signed-in user with some availability and some tasks, and no plan yet.
SchedInit ==
  /\ userId = "u1"
  /\ activeTab = "Dashboard"
  /\ fileName = ""
  /\ uploadState = "idle"
  /\ extractions = <<>>
  /\ syllabusId = NullId
  /\ calendar = NullId
  /\ error = ""
  /\ tasks = <<>>
  /\ recommendations = Recommendations(tasks)
  /\ uploads = {}
  /\ confirms = {}
  /\ fetches = {}
  /\ serverTasks \in {table \in SUBSET ScheduleRows :
                        \A a, b \in table : a.id = b.id => a = b}
  /\ nUploads = 0
  /\ nConfirms = 0
  /\ nSessions = 1
  /\ newTask = EmptyForm
  /\ taskFormError = ""
  /\ activeTask = NoTask
  /\ taskEdit = NoTask
  /\ taskSaving = FALSE
  /\ taskEditError = ""
  /\ taskOps = {}
  /\ nTaskOps = 0
  /\ availability \in Availabilities
  /\ plans = {}
  /\ latest = [w \in Weeks |-> 0]
  /\ recomputes = {}
  /\ nRecomputes = 0

SchedNext ==
  \/ ScheduleTaskCreated
  \/ ScheduleTaskDone
  \/ ScheduleTaskDeleted
  \/ RecomputeRead
  \/ RecomputeWrite

SchedSpec == SchedInit /\ [][SchedNext]_vars

\* ----------------------------------------------------- task form, editor
\* What the modelled user types into a title input, and the editor's edits.
TypedTitles == {" ", "T"}
EditorEdits == {<<"title", " ">>, <<"status", "done">>}
\* The two buttons that call saveTaskUpdates: "Save changes" submits the
\* editor's form, "Mark complete" passes {status: "done"}.
SaveClicks == {"submit", "complete"}

\* The row POST /api/tasks creates from the task form's request body.
FormTask(id, owner, payload) ==
  [id |-> id, owner |-> owner, confirm |-> 0, ext |-> <<0, 0>>,
   title |-> payload.title, course |-> "", task_type |-> "", due |-> NoDue,
   estimated_minutes |-> 0, importance |-> 0, status |-> payload.status]

\* The backend's task table after the request of op.
ApplyTaskOp(table, op) ==
  CASE op.kind = "create" ->
         table \cup {FormTask(<<0, 10 + op.id>>, op.user, op.payload)}
    [] op.kind = "update" ->
         {IF t.id = op.task /\ t.owner = op.user
          THEN [t EXCEPT !.title = op.payload.title, !.status = op.payload.status]
          ELSE t : t \in table}
    [] op.kind = "delete" ->
         {t \in table : ~(t.id = op.task /\ t.owner = op.user)}

\* The request of op can succeed: a PATCH or DELETE needs its row.
Servable(table, op) ==
  op.kind = "create" \/ \E t \in table : t.id = op.task /\ t.owner = op.user

TaskOp(kind, task, payload, dialog) ==
  [id |-> nTaskOps + 1, kind |-> kind, user |-> userId, task |-> task,
   payload |-> payload, dialog |-> dialog, phase |-> "sent"]

\* handleTaskChange("title", value)
handleTaskChange ==
  \E value \in TypedTitles :
    /\ TasksShown
    /\ newTask' = [newTask EXCEPT !.title = value]
    /\ newTask' # newTask
    /\ UNCHANGED <<clientVars, netVars, taskFormError, editorVars, taskOps, nTaskOps, schedVars>>

\* The form is submitted: its title input is `required`, so the browser
\* submits only a non-empty title.
SubmitEnabled == TasksShown /\ newTask.title # ""

\* handleTaskSubmit returns early: the title is blank.
TaskSubmitRejected ==
  /\ SubmitEnabled
  /\ Trim(newTask.title) = ""
  /\ taskFormError' = "Task title is required."
  /\ UNCHANGED <<clientVars, netVars, newTask, editorVars, taskOps, nTaskOps, schedVars>>

\* handleTaskSubmit up to its await: POST /api/tasks is sent.
handleTaskSubmit ==
  /\ SubmitEnabled
  /\ Trim(newTask.title) # ""
  /\ nTaskOps < MaxTaskOps
  /\ nTaskOps' = nTaskOps + 1
  /\ taskFormError' = ""
  /\ taskOps' = taskOps \cup
       {TaskOp("create", <<0, 0>>,
               [title |-> Trim(newTask.title), status |-> "pending"], TRUE)}
  /\ UNCHANGED <<clientVars, netVars, newTask, editorVars, schedVars>>

openTaskEditor ==
  \E i \in DOMAIN tasks :
    /\ TasksShown
    /\ activeTask' = <<tasks[i]>>
    /\ taskEdit' = <<[title |-> tasks[i].title, status |-> tasks[i].status]>>
    /\ taskEditError' = ""
    /\ UNCHANGED <<clientVars, netVars, newTask, taskFormError, taskSaving, taskOps,
                   nTaskOps, schedVars>>

\* The overlay or the Close button is clicked (Cancel does the same).
closeTaskEditor ==
  /\ Rendered
  /\ EditorOpen
  /\ activeTask' = NoTask
  /\ taskEdit' = NoTask
  /\ taskEditError' = ""
  /\ taskSaving' = FALSE
  /\ UNCHANGED <<clientVars, netVars, newTask, taskFormError, taskOps, nTaskOps, schedVars>>

handleTaskEditChange ==
  \E edit \in EditorEdits :
    /\ Rendered
    /\ EditorOpen
    /\ taskEdit' = <<[taskEdit[1] EXCEPT ![edit[1]] = edit[2]]>>
    /\ taskEdit' # taskEdit
    /\ UNCHANGED <<clientVars, netVars, newTask, taskFormError, activeTask, taskSaving,
                   taskEditError, taskOps, nTaskOps, schedVars>>

\* const merged = { ...taskEdit, ...updates }
Merged(click) ==
  IF click = "complete" THEN [taskEdit[1] EXCEPT !.status = "done"] ELSE taskEdit[1]
\* payload.title
PayloadTitle(click) == Trim(Merged(click).title)

\* The button of the click is enabled (and the form's title is non-empty for
\* a submit, the input being `required`).
SaveEnabled(click) ==
  /\ Rendered
  /\ EditorOpen
  /\ ~taskSaving
  /\ click = "submit" => taskEdit[1].title # ""
  /\ click = "complete" => taskEdit[1].status # "done"

\* saveTaskUpdates returns early: the payload's title is blank.
TaskEditRejected ==
  \E click \in SaveClicks :
    /\ SaveEnabled(click)
    /\ PayloadTitle(click) = ""
    /\ taskEditError' = "Task title is required."
    /\ UNCHANGED <<clientVars, netVars, newTask, taskFormError, activeTask, taskEdit,
                   taskSaving, taskOps, nTaskOps, schedVars>>

\* saveTaskUpdates up to its await: PATCH /api/tasks/<id> is sent.
saveTaskUpdates ==
  \E click \in SaveClicks :
    /\ SaveEnabled(click)
    /\ PayloadTitle(click) # ""
    /\ nTaskOps < MaxTaskOps
    /\ nTaskOps' = nTaskOps + 1
    /\ taskSaving' = TRUE
    /\ taskEditError' = ""
    /\ taskOps' = taskOps \cup
         {TaskOp("update", activeTask[1].id,
                 [title |-> PayloadTitle(click), status |-> Merged(click).status], TRUE)}
    /\ UNCHANGED <<clientVars, netVars, newTask, taskFormError, activeTask, taskEdit, schedVars>>

\* deleteTask going ahead whatever window.confirm returned.
DeleteProceedsAlways(affirmed) == TRUE

\* if (!window.confirm(confirmMessage)) return;
DeleteProceeds(affirmed) == affirmed

\* deleteTask up to its await: the dialog is answered, and DELETE
\* /api/tasks/<id> is sent if the user affirmed.
deleteTask ==
  \E affirmed \in BOOLEAN :
    /\ Rendered
    /\ EditorOpen
    /\ ~taskSaving
    /\ IF DeleteProceeds(affirmed)
       THEN /\ nTaskOps < MaxTaskOps
            /\ nTaskOps' = nTaskOps + 1
            /\ taskSaving' = TRUE
            /\ taskEditError' = ""
            /\ taskOps' = taskOps \cup
                 {TaskOp("delete", activeTask[1].id,
                         [title |-> "", status |-> ""], affirmed)}
            /\ UNCHANGED <<clientVars, netVars, newTask, taskFormError, activeTask,
                           taskEdit, schedVars>>
       ELSE UNCHANGED vars

\* The backend carries out the request of op and answers OK: the handler goes
\* on to `await fetchTasks()`.
TaskRequestOk ==
  \E op \in taskOps :
    /\ ~Busy
    /\ op.phase = "sent"
    /\ Servable(serverTasks, op)
    /\ serverTasks' = ApplyTaskOp(serverTasks, op)
    /\ taskOps' = (taskOps \ {op}) \cup {[op EXCEPT !.phase = "fetching"]}
    /\ UNCHANGED <<clientVars, uploads, confirms, fetches, nUploads, nConfirms,
                   nSessions, newTask, taskFormError, editorVars, nTaskOps, schedVars>>

\* The request of op fails: the catch block of its handler runs (and the
\* finally block of saveTaskUpdates).
TaskRequestFail ==
  \E op \in taskOps :
    /\ ~Busy
    /\ op.phase = "sent"
    /\ taskOps' = taskOps \ {op}
    /\ IF op.kind = "create"
       THEN /\ taskFormError' = "Failed to create task"
            /\ UNCHANGED <<taskEditError, taskSaving>>
       ELSE /\ taskEditError' = (IF op.kind = "update" THEN "Failed to update task"
                                 ELSE "Failed to delete task")
            /\ taskSaving' = FALSE
            /\ UNCHANGED taskFormError
    /\ UNCHANGED <<clientVars, netVars, newTask, activeTask, taskEdit, nTaskOps, schedVars>>

\* fetchTasks of op's handler ends (it catches its own failure) and the
\* handler finishes: the form is emptied, or the editor is closed.
TaskRequestDone ==
  \E op \in taskOps, ok \in BOOLEAN :
    /\ ~Busy
    /\ op.phase = "fetching"
    /\ taskOps' = taskOps \ {op}
    /\ tasks' = IF ok THEN TasksOf(serverTasks, op.user) ELSE tasks
    /\ recommendations' = Recommendations(tasks')
    /\ IF op.kind = "create"
       THEN /\ newTask' = EmptyForm
            /\ UNCHANGED editorVars
       ELSE /\ activeTask' = NoTask
            /\ taskEdit' = NoTask
            /\ taskEditError' = ""
            /\ taskSaving' = FALSE
            /\ UNCHANGED newTask
    /\ UNCHANGED <<userId, activeTab, importVars, netVars, taskFormError, nTaskOps, schedVars>>

\* The title input of review card i.
ReviewTitleEdit ==
  \E i \in DOMAIN extractions :
    \E value \in TypedTitles :
      /\ ImportShown
      /\ extractions' =
           handleExtractionUpdate(extractions, extractions[i].id, "title", value)
      /\ extractions' # extractions
      /\ UNCHANGED <<formVars, userId, activeTab, fileName, uploadState, syllabusId,
                     calendar, error, taskVars, netVars, schedVars>>

\* The tabs the user of the task form and the review opens.
OpenTab == \E tab \in {"Tasks", "Import"} : SetActiveTabTo(tab)

\* The task list the form and the editor work on.
FormRows ==
  {ManualTask(i, [status |-> "pending", due |-> NoDue, estimated_minutes |-> 0,
                  importance |-> 0, task_type |-> ""]) : i \in 1..2}

\* Signed in, on the Tasks tab with two tasks loaded, a syllabus in review
\* (one accepted extraction), the form and the editor as constructed.
FormInit ==
  /\ userId = "u1"
  /\ activeTab = "Tasks"
  /\ fileName = FileNames[1]
  /\ uploadState = "review"
  /\ extractions = MapEvents(1, <<Event(<<75>>)>>)
  /\ syllabusId = 1
  /\ calendar = 1
  /\ error = ""
  /\ serverTasks = FormRows
  /\ tasks = TasksOf(serverTasks, userId)
  /\ recommendations = Recommendations(tasks)
  /\ uploads = {}
  /\ confirms = {}
  /\ fetches = {}
  /\ nUploads = 1
  /\ nConfirms = MaxConfirms - 1
  /\ nSessions = 1
  /\ newTask = EmptyForm
  /\ taskFormError = ""
  /\ activeTask = NoTask
  /\ taskEdit = NoTask
  /\ taskSaving = FALSE
  /\ taskEditError = ""
  /\ taskOps = {}
  /\ nTaskOps = 0
  /\ NoSchedule

FormNext ==
  \/ OpenTab
  \/ handleTaskChange
  \/ TaskSubmitRejected
  \/ handleTaskSubmit
  \/ openTaskEditor
  \/ closeTaskEditor
  \/ handleTaskEditChange
  \/ TaskEditRejected
  \/ saveTaskUpdates
  \/ deleteTask
  \/ TaskRequestOk
  \/ TaskRequestFail
  \/ TaskRequestDone
  \/ ReviewEdit
  \/ ReviewTitleEdit
  \/ ConfirmRejected
  \/ handleConfirm
  \/ TaskPostOk
  \/ TaskPostFail
  \/ ConfirmDone

FormSpec == FormInit /\ [][FormNext]_vars

\* ------------------------------------------------ claims: recommendations
\* The four rules in ladder order, and when each one fires on the task list
\* (stated on the tasks themselves, not on the lists the memo builds).
Ladder == <<"prioritize", "split", "schedule", "add-due-date">>

Dated(t) == t.due.kind = "date"

Fires(rule) ==
  \E i \in DOMAIN tasks :
    LET t == tasks[i]
    IN /\ t.status # "done"
       /\ CASE rule = "prioritize" -> Dated(t) /\ deriveRisk(t) = "high"
            [] rule = "split" -> Dated(t) /\ t.estimated_minutes >= 120
            [] rule = "schedule" -> Dated(t) /\ t.due.days >= 0 /\ t.due.days <= 2
            [] rule = "add-due-date" -> t.due.kind = "none"

FiringRules == SelectSeq(Ladder, Fires)
EmittedRules == [i \in DOMAIN recommendations |-> recommendations[i].rule]
Entries(rule) == {i \in DOMAIN recommendations : recommendations[i].rule = rule}

\* C9: the recommendations list has 1 to 3 entries, each of the four rules
\* contributes at most one of them, and the default message is emitted (once,
\* alone) if and only if none of the four rules fires.
C9_LadderSize ==
  /\ Len(recommendations) >= 1
  /\ Len(recommendations) <= 3
  /\ \A k \in DOMAIN Ladder : Cardinality(Entries(Ladder[k])) <= 1
  /\ Cardinality(Entries("default")) <= 1
  /\ (Entries("default") # {}) <=> (FiringRules = <<>>)
  /\ \A k \in DOMAIN Ladder : Entries(Ladder[k]) # {} => Fires(Ladder[k])

\* C9 witness: all four rules fire and three entries are shown.
C9_Witness == Len(FiringRules) = 4 /\ Len(recommendations) = 3

\* C10: the emitted entries are the first (at most three) firing rules in
\* ladder order, so "add a due date" is dropped exactly when the three rules
\* above it all fire.
C10_LadderOrder ==
  /\ EmittedRules =
       (IF FiringRules = <<>> THEN <<"default">>
        ELSE SubSeq(FiringRules, 1, IF Len(FiringRules) < 3 THEN Len(FiringRules) ELSE 3))
  /\ (Fires("add-due-date") /\ Entries("add-due-date") = {})
       <=> (Len(FiringRules) = 4)

\* C10 witness: rule 1 does not fire and the other three are shown in order.
C10_Witness == EmittedRules = <<"split", "schedule", "add-due-date">>

\* The task list in another order.
Reordered(ts, p) == [i \in DOMAIN ts |-> ts[p[i]]]

\* C11: the ladder is stable: every list holding the same tasks as the task
\* list, in whatever order, yields the same recommendation texts in the same
\* order.
C11_Stable ==
  \A p \in Permutations(DOMAIN tasks) :
    RecommendationTexts(Reordered(tasks, p), Recommendations(Reordered(tasks, p)))
      = RecommendationTexts(tasks, recommendations)

\* ------------------------------------------------------------ claims: risk
ActiveIndexes == {i \in DOMAIN tasks : tasks[i].status # "done"}

\* C12: the band is "No data" iff there is no active task, and otherwise
\* "High" iff riskScore >= 0.60, "Moderate" iff 0.35 <= riskScore < 0.60 and
\* "Low" iff riskScore < 0.35.
C12_RiskBand ==
  LET score == riskScore(tasks)
      label == riskLabel(tasks)
  IN /\ (label = "No data") <=> (ActiveIndexes = {})
     /\ (score = <<>>) <=> (ActiveIndexes = {})
     /\ score # <<>> =>
          /\ (label = "High") <=> (score[1] >= 60)
          /\ (label = "Moderate") <=> (score[1] >= 35 /\ score[1] < 60)
          /\ (label = "Low") <=> (score[1] < 35)

\* C12 witness: a score on the upper threshold, a single medium-risk task
\* (0.60), is shown as "High".
C12_Witness ==
  /\ Cardinality(ActiveIndexes) = 1
  /\ riskCounts(tasks).medium = 1
  /\ riskLabel(tasks) = "High"

\* Day counts from overdue to beyond the last deadline bracket.
DayCounts == (0 - 3)..13
DueIn(task, d) == [task EXCEPT !.due = [kind |-> "date", days |-> d]]
RiskRank(level) == CASE level = "low" -> 0 [] level = "medium" -> 1 [] level = "high" -> 2

\* C13: with type and importance held equal, fewer days to the deadline never
\* gives a lower score or a lower risk level: for every task of the list moved
\* to any two day counts (overdue ones included), and for every two dated
\* tasks of the list that agree on type and importance.
C13_MonotoneInDays ==
  /\ \A i \in DOMAIN tasks :
       \A d1, d2 \in DayCounts :
         d1 <= d2 =>
           /\ deriveRiskScore(DueIn(tasks[i], d1)) >= deriveRiskScore(DueIn(tasks[i], d2))
           /\ RiskRank(deriveRisk(DueIn(tasks[i], d1)))
                >= RiskRank(deriveRisk(DueIn(tasks[i], d2)))
  /\ \A i, j \in DOMAIN tasks :
       (/\ Dated(tasks[i]) /\ Dated(tasks[j])
        /\ tasks[i].task_type = tasks[j].task_type
        /\ tasks[i].importance = tasks[j].importance
        /\ tasks[i].due.days <= tasks[j].due.days) =>
         RiskRank(deriveRisk(tasks[i])) >= RiskRank(deriveRisk(tasks[j]))

\* C13 witness: two tasks equal in type and importance, one overdue and high
\* risk, the other due later and of lower risk.
C13_Witness ==
  \E i, j \in DOMAIN tasks :
    /\ Dated(tasks[i]) /\ Dated(tasks[j])
    /\ tasks[i].task_type = tasks[j].task_type
    /\ tasks[i].importance = tasks[j].importance
    /\ tasks[i].due.days < 0
    /\ tasks[j].due.days > 10
    /\ deriveRisk(tasks[i]) = "high"
    /\ deriveRisk(tasks[j]) = "medium"

\* C14: riskScore is null exactly when there is no active task, and otherwise
\* it is the weighted mean of the risk levels rounded to hundredths, a number
\* between 0 and 1.
C14_ScoreRange ==
  LET score == riskScore(tasks)
      high == Cardinality({i \in ActiveIndexes : deriveRisk(tasks[i]) = "high"})
      medium == Cardinality({i \in ActiveIndexes : deriveRisk(tasks[i]) = "medium"})
      low == Cardinality({i \in ActiveIndexes : deriveRisk(tasks[i]) = "low"})
      total == Cardinality(ActiveIndexes)
  IN /\ (score = <<>>) <=> (total = 0)
     /\ score # <<>> =>
          /\ score[1] >= 0
          /\ score[1] <= 100
          /\ 2 * total * score[1] - total <= 2 * (100 * high + 60 * medium + 20 * low)
          /\ 2 * (100 * high + 60 * medium + 20 * low) < 2 * total * score[1] + total

\* C14 witness: every active task is high risk and the score is 1, with more
\* than one active task.
C14_Witness ==
  /\ Cardinality(ActiveIndexes) >= 2
  /\ riskScore(tasks) = <<100>>

\* An active task of 120 minutes or more, with and without a parseable date.
LongActive(i) == tasks[i].status # "done" /\ tasks[i].estimated_minutes >= 120

\* C24 (as claimed): "split into blocks" is emitted exactly when some active
\* task has an estimated effort of 120 minutes or more, dated or not.
C24_SplitForAnyLongTask ==
  (Entries("split") # {}) <=> (\E i \in DOMAIN tasks : LongActive(i))

\* C24 (amended): "split into blocks" is emitted exactly when some active task
\* with a parseable due date has an estimated effort of 120 minutes or more,
\* and its entry names the earliest-due such task.
C24_SplitNeedsDueDate ==
  /\ (Entries("split") # {}) <=> (\E i \in DOMAIN tasks : LongActive(i) /\ Dated(tasks[i]))
  /\ \A k \in Entries("split") :
       \E i \in DOMAIN tasks :
         /\ tasks[i].id = recommendations[k].task
         /\ LongActive(i) /\ Dated(tasks[i])
         /\ \A j \in DOMAIN tasks :
              (LongActive(j) /\ Dated(tasks[j])) => tasks[i].due.days <= tasks[j].due.days

\* C24 witness: a long task without a due date comes first, a long dated task
\* second, and the split entry names the second.
C24_Witness ==
  /\ Len(tasks) = 2
  /\ LongActive(1) /\ tasks[1].due = NoDue
  /\ LongActive(2) /\ Dated(tasks[2])
  /\ \E k \in Entries("split") : recommendations[k].task = tasks[2].id

\* C25: the band is "High" only if some active task is high risk.
C25_HighBandHasHighTask ==
  riskLabel(tasks) = "High" =>
    \E i \in DOMAIN tasks : tasks[i].status # "done" /\ deriveRisk(tasks[i]) = "high"

\* C29: a task without a parseable due date is never high risk, a high-risk
\* task is due in at most 10 days, and a task is low risk only with a score
\* below 3 (type weight plus 2 or 1 for importance >= 4 or 3, plus 3, 2 or 1
\* for a deadline within 2, 5 or 10 days).
C29_HighNeedsNearDeadline ==
  \A i \in DOMAIN tasks :
    LET t == tasks[i]
        weight == IF t.task_type \in {"project", "exam"} THEN 3
                  ELSE IF t.task_type = "essay" THEN 2 ELSE 1
        byImportance == IF t.importance >= 4 THEN 2 ELSE IF t.importance = 3 THEN 1 ELSE 0
        byDeadline == IF ~Dated(t) THEN 0
                      ELSE IF t.due.days <= 2 THEN 3
                      ELSE IF t.due.days <= 5 THEN 2
                      ELSE IF t.due.days <= 10 THEN 1 ELSE 0
    IN /\ ~Dated(t) => deriveRisk(t) # "high"
       /\ deriveRisk(t) = "high" => (Dated(t) /\ t.due.days <= 10)
       /\ deriveRisk(t) = "low" => weight + byImportance + byDeadline < 3
       /\ deriveRisk(t) \in {"low", "medium", "high"}

\* C29 witness: an exam of importance 5 without a due date is medium risk, the
\* highest score an undated task reaches.
C29_Witness ==
  \E i \in DOMAIN tasks :
    /\ tasks[i].task_type = "exam" /\ tasks[i].importance = 5
    /\ tasks[i].due = NoDue
    /\ deriveRiskScore(tasks[i]) = 5
    /\ deriveRisk(tasks[i]) = "medium"

\* --------------------------------------------------- claims: calendar view
\* The list the calendar renders in the current state.
Deadlines == deadlineEvents(tasks, calendar)

\* C30: deadlineEvents holds at most one entry per (title, date), is in
\* ascending date order, holds an entry for no task without a due date and
\* for no event without a date, and where a task and an imported event share
\* title and date the entry kept is the task's.
C30_DeadlineEvents ==
  /\ \A i, j \in DOMAIN Deadlines : SameKey(Deadlines[i], Deadlines[j]) => i = j
  /\ \A i, j \in DOMAIN Deadlines :
       (i < j /\ Deadlines[i].date.kind = "date" /\ Deadlines[j].date.kind = "date")
         => Deadlines[i].date.days <= Deadlines[j].date.days
  /\ \A i \in DOMAIN Deadlines :
       /\ Deadlines[i].date # NoDue
       /\ \/ \E k \in DOMAIN tasks :
               tasks[k].due # NoDue /\ Deadlines[i] = TaskEntry(tasks[k])
          \/ \E k \in DOMAIN CalendarOf(calendar) :
               /\ CalendarOf(calendar)[k].date # NoDue
               /\ Deadlines[i] = EventEntry(CalendarOf(calendar)[k])
  /\ \A k \in DOMAIN tasks : \A e \in DOMAIN CalendarOf(calendar) :
       (tasks[k].due # NoDue /\ SameKey(TaskEntry(tasks[k]), EventEntry(CalendarOf(calendar)[e])))
         => \E i \in DOMAIN Deadlines :
              /\ SameKey(Deadlines[i], TaskEntry(tasks[k]))
              /\ Deadlines[i].type = "task"

\* C30 witness: a task and an imported event share title and date, a later
\* task is due earlier, and an undated event and an undated task exist.
C30_Witness ==
  /\ Len(tasks) = 2 /\ Len(CalendarOf(calendar)) = 2
  /\ tasks[1].due.kind = "date" /\ tasks[2].due.kind = "date"
  /\ tasks[2].due.days < tasks[1].due.days
  /\ SameKey(TaskEntry(tasks[1]), EventEntry(CalendarOf(calendar)[1]))
  /\ CalendarOf(calendar)[2].date = NoDue
  /\ Len(Deadlines) = 2
  /\ Deadlines[2] = TaskEntry(tasks[1])

\* --------------------------------------------------- claims: schedule
\* The recomputes of a week, and those that have written their plan.
RecomputesOf(week) == {r \in recomputes' : r.week = week}
WrittenOf(week) == {r \in RecomputesOf(week) : r.phase = "done"}

\* C21: per (user, week) plan versions are unique and strictly increasing:
\* every plan written takes the version after the current one and becomes
\* the current one, no plan is removed, no two plans of a week share a
\* version; and of two concurrent recomputes of a week that both read
\* version N, one writes N+1 and the other, after retrying, N+2.
C21_VersionsIncrease ==
  [][/\ plans \subseteq plans'
     /\ \A p \in plans' \ plans :
          p.version = latest[p.week] + 1 /\ latest'[p.week] = p.version
     /\ \A w \in Weeks : latest'[w] \in {latest[w], latest[w] + 1}
     /\ \A p, q \in plans' :
          (p.user = q.user /\ p.week = q.week /\ p.version = q.version) => p = q
     /\ \A w \in Weeks :
          Cardinality(RecomputesOf(w)) = 2 =>
            /\ \A r \in RecomputesOf(w) : r.phase # "busy"
            /\ \A r, o \in WrittenOf(w) :
                 (r.id # o.id /\ r.first = o.first) =>
                   {r.wrote, o.wrote} = {r.first + 1, r.first + 2}]_vars

\* C21 witness: two recomputes of a week both read version N first; one has
\* written N+1 and the other, on its second read, N+2.
C21_Witness ==
  \E r, o \in recomputes :
    /\ r.week = o.week /\ r.id # o.id
    /\ r.phase = "done" /\ o.phase = "done"
    /\ r.first = o.first
    /\ r.wrote = r.first + 1 /\ o.wrote = r.first + 2 /\ o.reads = 2
    /\ \E p, q \in plans : p.id = r.id /\ q.id = o.id /\ p.version + 1 = q.version

\* Two schedule items share some time.
Overlap(a, b) == a.start < b.end /\ b.start < a.end

\* C22: in every plan version no two schedule items overlap in time.
C22_NoDoubleBooking ==
  \A p \in plans :
    \A i, j \in DOMAIN p.items : i # j => ~Overlap(p.items[i], p.items[j])

\* C22 witness: a plan that schedules two tasks.
C22_Witness ==
  \E p \in plans :
    \E i, j \in DOMAIN p.items : p.items[i].task # p.items[j].task

\* The minutes an allocation assigns to a task, and those it reports as
\* overflow.
RECURSIVE SumMinutes(_)
SumMinutes(items) ==
  IF items = <<>> THEN 0
  ELSE Head(items).end - Head(items).start + SumMinutes(Tail(items))
AssignedMinutes(result, task) ==
  SumMinutes(SelectSeq(result.items, LAMBDA item : item.task = task))
OverflowOf(result, task) == SelectSeq(result.overflow, LAMBDA o : o.task = task)
OverflowMinutes(result, task) ==
  IF OverflowOf(result, task) = <<>> THEN 0 ELSE OverflowOf(result, task)[1].minutes

\* The allocation of a week on the tasks and the availability of the state.
Allocation(week) == SlotAllocator(Eligible(serverTasks, "u1", week), availability)

\* C23: for every eligible task the assigned minutes plus the reported
\* overflow are the task's required minutes; a task larger than the whole
\* availability is not fully scheduled and its overflow is flagged "exceeds
\* capacity"; with 10 minutes available and one task of 60, the allocation is
\* one 10-minute item and 50 minutes of flagged overflow.
C23_NoSilentDrop ==
  \A week \in Weeks :
    LET eligible == Eligible(serverTasks, "u1", week)
        total == TotalMinutes(ExpandSlots(availability))
        result == Allocation(week)
    IN /\ \A t \in eligible :
            LET over == OverflowOf(result, t.id)
            IN /\ AssignedMinutes(result, t.id) + OverflowMinutes(result, t.id)
                    = t.estimated_minutes
               /\ Len(over) <= 1
               /\ t.estimated_minutes > total =>
                    /\ AssignedMinutes(result, t.id) < t.estimated_minutes
                    /\ Len(over) = 1 /\ over[1].minutes > 0 /\ over[1].exceeds_capacity
       /\ (total = 10 /\ \E t \in eligible : eligible = {t} /\ t.estimated_minutes = 60)
            => /\ Len(result.items) = 1
               /\ SumMinutes(result.items) = 10
               /\ Len(result.overflow) = 1
               /\ result.overflow[1].minutes = 50
               /\ result.overflow[1].exceeds_capacity

\* C23 witness: a plan written for the 10-minute block and one 60-minute
\* task: one item of 10 minutes, 50 minutes of overflow flagged.
C23_Witness ==
  \E p \in plans :
    /\ TotalMinutes(ExpandSlots(availability)) = 10
    /\ Len(p.items) = 1 /\ p.items[1].end - p.items[1].start = 10
    /\ Len(p.overflow) = 1 /\ p.overflow[1].minutes = 50
    /\ p.overflow[1].exceeds_capacity

\* --------------------------------------------------------- claims: import
Ids(items) == {items[i].id : i \in DOMAIN items}
WithStatus(items, status) == {items[i].id : i \in {j \in DOMAIN items : items[j].status = status}}
TasksBy(table, cf) == {t \in table : t.confirm = cf.id}

\* The catch block of confirm cf runs in this step.
FailsNow(cf) ==
  /\ cf.phase = "posting"
  /\ \A c2 \in confirms' : c2.id = cf.id => c2.phase = "failed"

\* Confirm cf finishes with setUploadState("confirmed") in this step.
SucceedsNow(cf) == cf.phase = "fetching" /\ cf \notin confirms'

\* Upload u's handler finishes in this step, with the success branch if
\* syllabusId becomes u's.
FinishesNow(u) == u.phase = "sent" /\ u \notin uploads'
UploadedNow(u) == FinishesNow(u) /\ syllabusId' = u.id

\* Upload u's handler finishes with its failure branch in this step.
UploadFailsNow(u) == FinishesNow(u) /\ syllabusId' # u.id

\* C1: confirmation is all-or-nothing: when a confirm fails (uploadState back
\* to "review" with an error), none of its candidates has been created as a
\* task.
C1_AllOrNothing ==
  [][\A cf \in confirms : FailsNow(cf) => TasksBy(serverTasks', cf) = {}]_vars

\* C2: once uploadState is "confirmed", no further handleConfirm issues
\* task-creation requests.
C2_NoReconfirm == [][uploadState = "confirmed" => nConfirms' = nConfirms]_vars

\* C3: whenever a confirm reaches "confirmed" (its user still signed in), the
\* extraction list held at that moment has an accepted extraction that was
\* among the confirm's materialized candidates.
C3_ConfirmedHasAccepted ==
  [][\A cf \in confirms :
       (SucceedsNow(cf) /\ userId = cf.user) =>
         WithStatus(extractions', "accepted") \cap Ids(cf.candidates) # {}]_vars

\* C4: uploadState changes only along idle -> uploading -> extracting ->
\* review -> confirming -> confirmed, extracting -> idle with an error and
\* confirming -> review with an error. Stated for the steps of a signed-in
\* session other than a new file selection (which starts a new syllabus).
ClaimedEdges ==
  {<<"idle", "uploading">>, <<"uploading", "extracting">>, <<"extracting", "review">>,
   <<"review", "confirming">>, <<"confirming", "confirmed">>,
   <<"extracting", "idle">>, <<"confirming", "review">>}

C4_Edges ==
  [][(/\ uploadState' # uploadState
      /\ nUploads' = nUploads
      /\ userId # NoUser
      /\ userId' = userId) =>
       /\ <<uploadState, uploadState'>> \in ClaimedEdges
       /\ <<uploadState, uploadState'>> \in
            {<<"extracting", "idle">>, <<"confirming", "review">>} => error' # ""]_vars

\* C5: when an upload succeeds, every extraction starts as accepted if its
\* confidence (0 when missing) is at least 0.75 and as pending otherwise, none
\* as rejected.
C5_InitialStatus ==
  [][\A u \in uploads :
       UploadedNow(u) =>
         \E events \in EventLists :
           /\ DOMAIN extractions' = DOMAIN events
           /\ \A k \in DOMAIN events :
                LET c == IF events[k].confidence = <<>> THEN 0
                         ELSE events[k].confidence[1]
                IN /\ extractions'[k].confidence = c
                   /\ extractions'[k].status =
                        (IF c >= 75 THEN "accepted" ELSE "pending")]_vars

\* C5 witness: a review list fresh from an upload with confidence 0.80
\* accepted and confidence 0.40 pending.
C5_Witness ==
  /\ uploadState = "review"
  /\ \E i, j \in DOMAIN extractions :
       /\ extractions[i].confidence = 80 /\ extractions[i].status = "accepted"
       /\ extractions[j].confidence = 40 /\ extractions[j].status = "pending"

\* C6: a confirm invoked on a list with a >= 1 accepted extractions issues
\* exactly a requests, one per accepted extraction and none for a rejected
\* one, and when all have succeeded exactly those a tasks have been created.
C6_OneTaskPerAccepted ==
  \A cf \in confirms :
    LET acc == WithStatus(cf.items, "accepted")
        a == Cardinality({i \in DOMAIN cf.items : cf.items[i].status = "accepted"})
    IN a >= 1 =>
         /\ Len(cf.req) = a
         /\ Len(cf.candidates) = a
         /\ Ids(cf.candidates) = acc
         /\ Ids(cf.candidates) \cap WithStatus(cf.items, "rejected") = {}
         /\ cf.phase = "fetching" =>
              /\ Cardinality(TasksBy(serverTasks, cf)) = a
              /\ \A id \in acc :
                   Cardinality({t \in TasksBy(serverTasks, cf) : t.ext = id}) = 1

\* C6 witness: all requests of a confirm over a list with an accepted and a
\* rejected extraction have succeeded.
C6_Witness ==
  \E cf \in confirms :
    /\ cf.phase = "fetching"
    /\ WithStatus(cf.items, "accepted") # {}
    /\ WithStatus(cf.items, "rejected") # {}

\* C7 (as claimed): whenever a confirm succeeds on the list it was invoked on,
\* no extraction is still pending and every non-rejected extraction has a task.
C7_AllResolved ==
  [][\A cf \in confirms :
       (SucceedsNow(cf) /\ extractions = ExtractionsAfterConfirm(cf.items)) =>
         \A i \in DOMAIN extractions' :
           /\ extractions'[i].status # "pending"
           /\ extractions'[i].status # "rejected" =>
                \E t \in serverTasks' : t.ext = extractions'[i].id]_vars

\* C7 (amended): a confirm invoked while no extraction is accepted promotes
\* every non-rejected extraction to accepted, leaves the rejected ones, and
\* sends one request per promoted extraction; a confirm invoked while some
\* extraction is accepted changes no status and sends requests for the
\* accepted ones only.
C7_PromotionOnlyWhenNoneAccepted ==
  [][nConfirms' = nConfirms + 1 =>
       \E cf \in confirms' :
         /\ cf.id = nConfirms'
         /\ DOMAIN extractions' = DOMAIN extractions
         /\ IF WithStatus(extractions, "accepted") = {}
            THEN /\ \A i \in DOMAIN extractions :
                      extractions'[i] =
                        IF extractions[i].status = "rejected" THEN extractions[i]
                        ELSE [extractions[i] EXCEPT !.status = "accepted"]
                 /\ Ids(cf.candidates) =
                      Ids(extractions) \ WithStatus(extractions, "rejected")
            ELSE /\ extractions' = extractions
                 /\ Ids(cf.candidates) = WithStatus(extractions, "accepted")]_vars

\* C7 witness: a confirm was invoked on a list with nothing accepted, a
\* pending and a rejected extraction, and the pending one is now accepted.
C7_Witness ==
  \E cf \in confirms :
    /\ WithStatus(cf.items, "accepted") = {}
    /\ WithStatus(cf.items, "pending") # {}
    /\ WithStatus(cf.items, "rejected") # {}
    /\ WithStatus(cf.items, "pending") \subseteq WithStatus(extractions, "accepted")

\* C8: an upload that succeeds reaches "review" even with zero items, and the
\* failed state ("idle" with an error) is entered only by an upload whose
\* request failed.
C8_EmptyReachesReview ==
  [][/\ \A u \in uploads : UploadedNow(u) => uploadState' = "review"
     /\ (uploadState' = "idle" /\ error' # "" /\ (uploadState # "idle" \/ error = ""))
          => \E u \in uploads : FinishesNow(u) /\ syllabusId' # u.id]_vars

\* C8 witness: an upload succeeded with zero items and the import is in review.
C8_Witness == uploadState = "review" /\ extractions = <<>> /\ syllabusId # NullId

\* ------------------------------------------------ claims: users, failures
\* C15: the client holds only what requests of the signed-in user returned:
\* every task of the list is owned by userId, and while nobody is signed in
\* the task list, the review list, syllabusId and calendar are empty.
C15_NoCrossUser ==
  /\ \A i \in DOMAIN tasks : tasks[i].owner = userId
  /\ userId = NoUser =>
       /\ tasks = <<>>
       /\ extractions = <<>>
       /\ syllabusId = NullId
       /\ calendar = NullId

\* C17: a failure rolls back. When a confirm fails on the list its
\* handleConfirm left, the review list is again the one handleConfirm was
\* invoked on; when the only upload in flight fails, file name, syllabusId and
\* calendar are again those its handleFileChange found, and the review list
\* is untouched.
C17_RollsBack ==
  [][/\ \A cf \in confirms :
          (FailsNow(cf) /\ extractions = ExtractionsAfterConfirm(cf.items)) =>
            extractions' = cf.items
     /\ \A u \in uploads :
          (UploadFailsNow(u) /\ uploads = {u} /\ userId = u.user) =>
            /\ fileName' = u.prev.fileName
            /\ syllabusId' = u.prev.syllabusId
            /\ calendar' = u.prev.calendar
            /\ extractions' = extractions]_vars

\* The confirms whose Promise.all is pending or whose fetchTasks is pending.
ConfirmsInFlight == {cf \in confirms : cf.phase \in {"posting", "fetching"}}

\* C20: at most one confirm is in flight at any time.
C20_OneConfirmInFlight == Cardinality(ConfirmsInFlight) <= 1

\* C19: an upload that has entered "extracting" eventually leaves it.
C19_NoHang == (uploadState = "extracting") ~> (uploadState # "extracting")

\* The upload whose response held the extraction: ids are <<upload, index>>.
UploadOf(item) == item.id[1]

\* C26: the extractions handleConfirm submits are those returned for the file
\* whose name is in fileName, the name its course label is derived from.
C26_ConfirmOfCurrentFile ==
  \A cf \in confirms :
    \A i \in DOMAIN cf.candidates : cf.file = FileNames[UploadOf(cf.candidates[i])]

\* The review statuses.
Statuses == {"pending", "accepted", "rejected"}
\* The positions of the review list whose status changes in this step.
StatusChanges == {i \in DOMAIN extractions : extractions'[i].status # extractions[i].status}

\* C28: while the review list holds the extractions of one upload, every
\* status is pending, accepted or rejected; an accepted or rejected extraction
\* never returns to pending; a status changes only by an accept/reject click
\* (one card, nothing sent) or by the promotion pending -> accepted of a
\* confirm; and a confirm never changes a rejected extraction.
C28_StatusTransitions ==
  [][(extractions # <<>> /\ Ids(extractions') = Ids(extractions)) =>
       /\ \A i \in DOMAIN extractions :
            /\ extractions'[i].id = extractions[i].id
            /\ extractions'[i].status \in Statuses
            /\ extractions[i].status # "pending" => extractions'[i].status # "pending"
       /\ StatusChanges # {} =>
            \/ /\ nConfirms' = nConfirms
               /\ Cardinality(StatusChanges) = 1
               /\ \A i \in StatusChanges : extractions'[i].status \in {"accepted", "rejected"}
               /\ UNCHANGED <<uploadState, fileName, syllabusId, taskVars, netVars>>
            \/ /\ nConfirms' = nConfirms + 1
               /\ \A i \in StatusChanges :
                    extractions[i].status = "pending" /\ extractions'[i].status = "accepted"
       /\ nConfirms' # nConfirms =>
            \A i \in DOMAIN extractions :
              extractions[i].status = "rejected" => extractions'[i] = extractions[i]]_vars

\* C28 witness: a confirm promoted a pending extraction while nothing was
\* accepted, and the user has since rejected the promoted extraction.
C28_Witness ==
  \E cf \in confirms :
    /\ WithStatus(cf.items, "accepted") = {}
    /\ Ids(cf.items) = Ids(extractions)
    /\ WithStatus(cf.items, "pending") \cap WithStatus(extractions, "rejected") # {}

\* -------------------------------------------- claims: task form and editor
Blank(title) == title \in {"", " "}
\* The requests sent in this step.
NewTaskOps == {op \in taskOps' : \A old \in taskOps : old.id # op.id}
TitleRequired == "Task title is required."
TitleNeeded == "Each extracted item needs a title before confirming."

\* The extractions a confirm would send: the accepted ones, or with none
\* accepted the ones not rejected.
WouldSend ==
  LET accepted == {i \in DOMAIN extractions : extractions[i].status = "accepted"}
  IN IF accepted # {} THEN accepted
     ELSE {i \in DOMAIN extractions : extractions[i].status # "rejected"}

\* C16: malformed input is rejected before anything is mutated. No confirm
\* sends requests while a candidate's title is blank, no task is created from
\* a blank form title and no task is updated from a blank editor title; and a
\* step that raises one of the three title errors changes nothing but that
\* error message.
C16_RejectedBeforeMutation ==
  [][/\ nConfirms' # nConfirms =>
          \A i \in WouldSend : ~Blank(extractions[i].title)
     /\ \A op \in NewTaskOps :
          /\ op.kind # "delete" => ~Blank(op.payload.title)
          /\ op.kind = "create" => ~Blank(newTask.title)
          /\ op.kind = "update" => ~Blank(taskEdit[1].title)
     /\ (error' = TitleNeeded /\ error # TitleNeeded) =>
          UNCHANGED <<userId, activeTab, fileName, uploadState, extractions,
                      syllabusId, calendar, taskVars, netVars, formVars>>
     /\ (taskFormError' = TitleRequired /\ taskFormError # TitleRequired) =>
          UNCHANGED <<clientVars, netVars, newTask, editorVars, taskOps, nTaskOps>>
     /\ (taskEditError' = TitleRequired /\ taskEditError # TitleRequired) =>
          UNCHANGED <<clientVars, netVars, newTask, taskFormError, activeTask,
                      taskEdit, taskSaving, taskOps, nTaskOps>>]_vars

\* C16 witness: a confirm, a task creation and a task edit have each been
\* rejected for a blank title, and no request has been sent.
C16_Witness ==
  /\ error = TitleNeeded
  /\ taskFormError = TitleRequired
  /\ taskEditError = TitleRequired
  /\ \E i \in WouldSend : Blank(extractions[i].title)
  /\ Blank(newTask.title)
  /\ EditorOpen /\ Blank(taskEdit[1].title)
  /\ ~taskSaving
  /\ nTaskOps = 0 /\ taskOps = {}
  /\ nConfirms = MaxConfirms - 1 /\ confirms = {}
  /\ serverTasks = FormRows

\* C18: a DELETE request is sent only from the open editor, for the task it
\* was opened on, by the signed-in user, after the dialog was affirmed; and a
\* task leaves the backend's table only through such a request.
C18_DeleteExplicit ==
  [][/\ \A op \in NewTaskOps :
          op.kind = "delete" =>
            /\ op.dialog
            /\ userId # NoUser /\ op.user = userId
            /\ EditorOpen /\ op.task = activeTask[1].id
            /\ \A other \in NewTaskOps : other = op
     /\ \A t \in serverTasks :
          (\A t2 \in serverTasks' : t2.id # t.id) =>
            \E op \in taskOps :
              /\ op.kind = "delete" /\ op.dialog
              /\ op.task = t.id /\ op.user = t.owner]_vars

\* C18 witness: the DELETE of an affirmed deleteTask has removed one of the
\* two tasks and left the other.
C18_Witness ==
  \E op \in taskOps :
    /\ op.kind = "delete" /\ op.dialog /\ op.phase = "fetching"
    /\ \A t \in serverTasks : t.id # op.task
    /\ Cardinality(serverTasks) = 1

\* The handler of request op runs to its end in this step.
TaskOpEnds(op) == \A o \in taskOps' : o.id # op.id

\* C27: when a save or delete completes while the editor shows another task
\* than the one the request was issued for, the open editor keeps its task,
\* its edits and its saving flag.
C27_CompletionKeepsOtherEditor ==
  [][\A op \in taskOps :
       (/\ op.kind \in {"update", "delete"}
        /\ TaskOpEnds(op)
        /\ EditorOpen
        /\ activeTask[1].id # op.task)
         => UNCHANGED <<activeTask, taskEdit, taskSaving>>]_vars

====
